---- MODULE Spec2Model ----
(***************************************************************************)
(* Model of i18n-leptos: the language-identifier context                   *)
(* (provide_langid_context / change_langid, in the two snapshots           *)
(* src/src/lib.rs and src/src/ctx.rs), its persistence helpers             *)
(* (src/src/utils.rs) and the reactive message produced by the rtr! macro  *)
(* (i18n-leptos-macros/src/lib.rs and i18n-leptos-macros/src/rtr.rs).      *)
(*                                                                         *)
(* Option<T> / Result<T, E> values are sequences: <<>> is None / Err,      *)
(* <<x>> is Some(x) / Ok(x).                                               *)
(***************************************************************************)
EXTENDS Naturals, Sequences, FiniteSets

None == <<>>
Some(x) == <<x>>
IsSome(o) == o # <<>>
Unwrap(o) == o[1]
UnwrapOr(o, d) == IF o # <<>> THEN o[1] ELSE d

(***************************************************************************)
(* Language identifiers and their string forms.                            *)
(***************************************************************************)
EN_US == [language |-> "en", region |-> "US"]
FR == [language |-> "fr", region |-> ""]
DE == [language |-> "de", region |-> ""]
Langs == {EN_US, FR, DE}

\* the strings the environment can hold: canonical tags, a tag in
\* non-canonical case, and a string that is no language tag
Strings == {"en-US", "EN-us", "fr", "de", "zz!"}
OptStrings == {None} \cup {Some(s) : s \in Strings}
\* the strings the environment writes on its own (the program writes the
\* others), and the navigator languages considered
Inputs == {"en-US", "EN-us", "fr", "zz!"}
OptInputs == {None} \cup {Some(s) : s \in Inputs}
Navigators == {None, Some("en-US"), Some("zz!")}
OptLangs == {None} \cup {Some(l) : l \in Langs}

\* LanguageIdentifier::to_string: the canonical string form
to_string(l) ==
  CASE l = EN_US -> "en-US"
    [] l = FR -> "fr"
    [] l = DE -> "de"

\* LanguageIdentifier::from_str: Ok(langid) or Err; case is canonicalised
from_str(s) ==
  CASE s = "en-US" -> Some(EN_US)
    [] s = "EN-us" -> Some(EN_US)
    [] s = "fr" -> Some(FR)
    [] s = "de" -> Some(DE)
    [] OTHER -> None

(***************************************************************************)
(* Messages and the Localizer (LOCALES.query).                             *)
(***************************************************************************)
MsgId == "greeting"
EmptyAttrs == [a \in {} |-> ""]
\* i18n::Message::default(), the initial value of RwSignal::default()
DefaultMessage == [id |-> "", value |-> "", attrs |-> EmptyAttrs]
\* the catalog: "greeting" is translated for en-US and fr, not for de
Query(l, id) ==
  CASE l = EN_US -> Some([id |-> id, value |-> "Hello", attrs |-> [a \in {"title"} |-> "Greeting"]])
    [] l = FR -> Some([id |-> id, value |-> "Bonjour", attrs |-> [a \in {"title"} |-> "Salutation"]])
    [] OTHER -> None
\* a placeholder that is the default (empty) message
PlaceholderEmpty(id) == [id |-> "", value |-> "", attrs |-> EmptyAttrs]
\* the placeholder substituted when the query fails
Placeholder(id) == [id |-> id, value |-> id, attrs |-> EmptyAttrs]
\* body of the closure / effect the rtr! macro emits
RtrMessage(l, id) == UnwrapOr(Query(l, id), Placeholder(id))

VARIABLES
  impl,            \* which snapshot of provide_langid_context runs: "lib" or "ctx"
  source,          \* LangIdSource
  explicit,        \* ctx.rs: the initial_langid argument (Option)
  navigator,       \* window.navigator.language (Option<String>)
  storageAvail,    \* window.localStorage is usable in this session
  storage,         \* local storage item under the key (Option<String>)
  cookie,          \* cookie under the key (Option<String>)
  phase,           \* "new", "ready" (context provided), "aborted" (init threw)
  langid,          \* the ArcRwSignal held by LangIdContext (Option: None before it exists)
  initial_langid,  \* the fallback captured by the closures (Option)
  effectDirty,     \* the Cookie sync Effect is scheduled to (re)run
  timeoutPending,  \* the Cookie set_timeout has not fired yet
  msg,             \* rtr_impl: the RwSignal<Message> written by its Effect
  msgDirty,        \* rtr_impl: the Effect is scheduled to (re)run
  subscribers,     \* the observers subscribed to the ReactiveMessage
  other,           \* a second tab on the same local storage: its phase
                   \* ("off": not opened), langid and initial_langid
  last             \* the last step taken (history, for stating the properties)

config == <<impl, source, explicit, navigator, storageAvail>>
backend == <<storage, cookie>>
ctx == <<phase, langid, initial_langid>>
cookieTasks == <<effectDirty, timeoutPending>>
message == <<msg, msgDirty>>
vars == <<config, backend, ctx, cookieTasks, message, subscribers, other, last>>

Impls == {"lib", "ctx"}
Sources(i) == IF i = "lib" THEN {"Navigator", "LocalStorage", "Cookie"}
              ELSE {"Navigator", "LocalStorage"}

\* what a step that is no read of a ReactiveMessage records about reads
NoRead ==
  [variant |-> "", onError |-> FALSE, accessor |-> "", name |-> "",
   tracked |-> FALSE, result |-> "", handled |-> None, subsBefore |-> {},
   again |-> FALSE, prevQueries |-> 0]

\* the steps that are neither the program's own initialization nor its
\* scheduled work: calls by the application and changes by the environment
Disturbing ==
  {"change_langid", "event", "ext_storage", "ext_cookie", "other_change_langid"}
\* the steps that change, or try to change, the language in some tab
Calls == {"change_langid", "event", "ext_storage", "other_change_langid"}
\* the second tab before it is opened
NoTab == [phase |-> "off", langid |-> None, initial_langid |-> None]

\* history record: the step taken, the event detail / value read or written
\* externally (Option<String>), the argument of change_langid (Option),
\* whether the step ended by throwing, whether its storage write failed,
\* the signal's value before the step, whether only initialization and
\* scheduled work have run so far, and the backend contents at startup
\* (kept until the first disturbing step), and the calls the step made, in
\* program order (filled in by Logged)
Step(op, detail, lang, threw, writeFailed) ==
  [op |-> op, detail |-> detail, lang |-> lang, threw |-> threw,
   writeFailed |-> writeFailed, before |-> langid,
   undisturbed |-> (last.undisturbed /\ op \notin Disturbing),
   start |-> (IF last.undisturbed /\ op \notin Disturbing THEN last.start
              ELSE [storage |-> None, cookie |-> None]),
   log |-> <<>>, read |-> NoRead,
   settled |-> (IF other.phase = "off" THEN {}
                ELSE IF op \in Calls THEN {}
                ELSE IF op = "tick" /\ ~threw THEN last.settled \cup {"this"}
                ELSE IF op = "other_tick" /\ ~threw THEN last.settled \cup {"other"}
                ELSE last.settled)]

\* the calls of a step: "dispatch" (window.dispatch_event of the change
\* event), "listener" (the change-event listener is entered), "read" (the
\* backend is read), "write" (a backend write is issued), "set"
\* (langid.set), "query" (the Localizer is invoked), "on_error" (the
\* caller's error handler is invoked)
Logged(step, calls) == [step EXCEPT !.log = calls]

\* the calls recorded for the last step
Has(log, c) == \E i \in 1..Len(log) : log[i] = c
Count(log, c) == Cardinality({i \in 1..Len(log) : log[i] = c})
Index(log, c) == CHOOSE i \in 1..Len(log) : log[i] = c /\ \A j \in 1..(i-1) : log[j] # c

\* the environment is followed for the backend the source names; with the
\* Navigator source, which names none, for both
StorageObserved == source # "Cookie"
CookieObserved == source # "LocalStorage"

Init ==
  /\ impl \in Impls
  /\ source \in Sources(impl)
  /\ explicit \in (IF impl = "ctx" THEN OptLangs ELSE {None})
  /\ navigator \in Navigators
  /\ storageAvail \in (IF StorageObserved THEN BOOLEAN ELSE {TRUE})
  /\ storage \in (IF StorageObserved /\ storageAvail THEN OptInputs ELSE {None})
  /\ cookie \in (IF CookieObserved THEN OptInputs ELSE {None})
  /\ phase = "new"
  /\ langid = None
  /\ initial_langid = None
  /\ effectDirty = FALSE
  /\ timeoutPending = FALSE
  /\ msg = DefaultMessage
  /\ msgDirty = FALSE
  /\ subscribers = {}
  /\ other = NoTab
  /\ last = [op |-> "none", detail |-> None, lang |-> None, threw |-> FALSE,
             writeFailed |-> FALSE, before |-> None, undisturbed |-> TRUE,
             start |-> [storage |-> storage, cookie |-> cookie],
             log |-> <<>>, read |-> NoRead, settled |-> {}]


(***************************************************************************)
(* Persistence helpers (utils.rs).  lib.rs calls the unwrap_throw          *)
(* versions: they throw where the Result versions used by ctx.rs return    *)
(* Err.                                                                    *)
(***************************************************************************)
\* local_storage::get: None = it threw (lib) / Err (ctx), Some(item) = the
\* Option<String> stored under the key
local_storage_get == IF storageAvail THEN Some(storage) ELSE None
\* local_storage::set succeeds iff the storage is usable and set_item did
\* not fail (quotaExceeded is the environment's choice)
local_storage_set_ok(quotaExceeded) == storageAvail /\ ~quotaExceeded
\* the Result versions ctx.rs calls: get is Ok(item) or Err (None), set is
\* Ok exactly when the write went through
local_storage_get_result == IF storageAvail THEN Some(storage) ELSE None
local_storage_set_result_ok(quotaExceeded) == storageAvail /\ ~quotaExceeded
\* cookie::get: the value of the cookie named key
cookie_get == cookie
\* cookie::set(key, value, ""): document.cookie = "key=value"
cookie_set(value) == Some(value)

(***************************************************************************)
(* The signal: ArcRwSignal::set stores the value and marks every           *)
(* subscribed effect dirty (the Cookie sync Effect, the rtr_impl Effect).  *)
(***************************************************************************)
\* mutant: the write does not notify the rtr_impl Effect
langid_set_without_notify(v) ==
  /\ langid' = Some(v)
  /\ effectDirty' = (effectDirty \/ (phase = "ready" /\ source = "Cookie"))
  /\ msgDirty' = msgDirty

langid_set(v) ==
  /\ langid' = Some(v)
  /\ effectDirty' = (effectDirty \/ (phase = "ready" /\ source = "Cookie"))
  /\ msgDirty' = (msgDirty \/ phase = "ready")

\* the timers run as tasks of the event loop: every scheduled effect
\* (a microtask) has run before a timer callback starts
MicrotasksDone == ~effectDirty /\ ~msgDirty

(***************************************************************************)
(* provide_langid_context                                                  *)
(***************************************************************************)
\* lib.rs: navigator.language().unwrap_throw(), from_str(..).unwrap_throw();
\* None = it threw
InitialLangidLib(nav) ==
  IF IsSome(nav) THEN from_str(Unwrap(nav)) ELSE None

\* ctx.rs: the explicit argument, else the navigator language ("en-US" when
\* absent) parsed with unwrap_throw; None = it threw
InitialLangidCtx(expl, nav) ==
  IF IsSome(expl) THEN expl ELSE from_str(UnwrapOr(nav, "en-US"))

\* mutant: the startup block keeps the initial language
StartupLangidIgnoringStorage(stored, initial) == initial

\* mutant: the startup block takes an unparsable item for en-US
StartupLangidGarbageIsEnUS(stored, initial) ==
  IF IsSome(stored) THEN UnwrapOr(from_str(Unwrap(stored)), EN_US)
  ELSE initial

\* "set initial local storage langid": the signal's value after the block
StartupLangid(stored, initial) ==
  IF IsSome(stored) THEN UnwrapOr(from_str(Unwrap(stored)), initial)
  ELSE initial

\* initialization threw: nothing is registered, the application stops
Abort(ctxProvided, initial) ==
  /\ phase' = "aborted"
  /\ langid' = (IF ctxProvided THEN initial ELSE None)
  /\ initial_langid' = (IF ctxProvided THEN initial ELSE None)
  /\ last' = Logged(Step("provide", None, None, TRUE, FALSE),
                    IF ctxProvided THEN <<"read">> ELSE <<>>)
  /\ UNCHANGED <<config, subscribers, other, backend, cookieTasks, message>>

\* initialization returned: the context holds value, the listeners, timers
\* and effects of the source are registered, and the view creates its
\* reactive message (whose Effect is scheduled)
\* the calls of the LocalStorage startup block: the read, and langid.set
\* when an item is stored
StartupCalls(stored) ==
  IF IsSome(stored) THEN <<"read", "set">> ELSE <<"read">>

Ready(value, initial) ==
  /\ phase' = "ready"
  /\ langid' = Some(value)
  /\ initial_langid' = initial
  /\ effectDirty' = (source = "Cookie")
  /\ timeoutPending' = (source = "Cookie")
  /\ msgDirty' = TRUE
  /\ last' = Logged(Step("provide", None, None, FALSE, FALSE),
                    IF source # "LocalStorage" THEN <<>>
                    ELSE IF storageAvail THEN StartupCalls(storage)
                    ELSE <<"read">>)
  /\ UNCHANGED <<config, subscribers, other, backend, msg>>

\* lib.rs provide_langid_context(source)
provide_langid_context ==
  /\ phase = "new"
  /\ impl = "lib"
  /\ LET initial == InitialLangidLib(navigator) IN
       IF ~IsSome(initial) THEN Abort(FALSE, None)
       ELSE CASE source = "Navigator" -> Ready(Unwrap(initial), initial)
              [] source = "LocalStorage" ->
                   IF ~IsSome(local_storage_get) THEN Abort(TRUE, initial)
                   ELSE Ready(StartupLangid(Unwrap(local_storage_get), Unwrap(initial)), initial)
              [] source = "Cookie" -> Ready(Unwrap(initial), initial)

\* ctx.rs setup_local_storage_handler: the startup read
setup_local_storage_handler(initial) ==
  IF IsSome(local_storage_get_result)
  THEN Ready(StartupLangid(Unwrap(local_storage_get_result), Unwrap(initial)), initial)
  ELSE Ready(Unwrap(initial), initial)

\* ctx.rs provide_langid_context(source, initial_langid)
provide_langid_context_ctx ==
  /\ phase = "new"
  /\ impl = "ctx"
  /\ LET initial == InitialLangidCtx(explicit, navigator) IN
       IF ~IsSome(initial) THEN Abort(FALSE, None)
       ELSE CASE source = "Navigator" -> Ready(Unwrap(initial), initial)
              [] source = "LocalStorage" -> setup_local_storage_handler(initial)

(***************************************************************************)
(* The change-notification event and its listener.                         *)
(***************************************************************************)
\* mutant: use_event_listener is called whatever the source
ListenerRegisteredForAnySource == phase = "ready"

\* use_event_listener is called only in the LocalStorage branch
ListenerRegistered == phase = "ready" /\ source = "LocalStorage"

\* the value the listener hands to langid.set
ListenerLangid(new_langid, initial) == UnwrapOr(from_str(new_langid), initial)

\* mutant: change_langid lets the listener's work happen first and
\* dispatches the event afterwards
DispatchCallsAfterWrite(op, listenerCalls) ==
  IF op = "change_langid" THEN listenerCalls \o <<"dispatch">>
  ELSE listenerCalls

\* change_langid dispatches the event, which runs the listener; an event
\* of other code is dispatched by that code
DispatchCalls(op, listenerCalls) ==
  IF op = "change_langid" THEN <<"dispatch">> \o listenerCalls
  ELSE listenerCalls

\* mutant: the listener announces the change it has applied by dispatching
\* the event again
ListenerCallsLibRedispatching(detail, writeOk) ==
  IF ~IsSome(detail) THEN <<"listener">>
  ELSE IF ~writeOk THEN <<"listener", "write">>
  ELSE <<"listener", "write", "set", "dispatch">>

\* the calls of the lib.rs listener: it stops at the unwrap of a detail
\* that is no string, and at a write that throws
ListenerCallsLib(detail, writeOk) ==
  IF ~IsSome(detail) THEN <<"listener">>
  ELSE IF ~writeOk THEN <<"listener", "write">>
  ELSE <<"listener", "write", "set">>

\* the calls of the ctx.rs listener: it returns at a detail that is no
\* string, and goes on after a failed write
ListenerCallsCtx(detail, writeOk) ==
  IF ~IsSome(detail) THEN <<"listener">>
  ELSE <<"listener", "write", "set">>

\* lib.rs listener: data.detail().as_string().unwrap(), then
\* local_storage::set (unwrap_throw), then langid.set
listener_lib(op, detail, lang, quotaExceeded) ==
  IF ~IsSome(detail)
  THEN /\ last' = Logged(Step(op, detail, lang, TRUE, FALSE),
                         DispatchCalls(op, ListenerCallsLib(detail, FALSE)))
       /\ UNCHANGED <<config, subscribers, other, backend, ctx, cookieTasks, message>>
  ELSE IF ~local_storage_set_ok(quotaExceeded)
  THEN /\ last' = Logged(Step(op, detail, lang, TRUE, TRUE),
                         DispatchCalls(op, ListenerCallsLib(detail, FALSE)))
       /\ UNCHANGED <<config, subscribers, other, backend, ctx, cookieTasks, message>>
  ELSE /\ storage' = detail
       /\ langid_set(ListenerLangid(Unwrap(detail), Unwrap(initial_langid)))
       /\ last' = Logged(Step(op, detail, lang, FALSE, FALSE),
                         DispatchCalls(op, ListenerCallsLib(detail, TRUE)))
       /\ UNCHANGED <<config, subscribers, other, cookie, phase, initial_langid, timeoutPending, msg>>

\* ctx.rs listener: a detail that is no string is logged and ignored; a
\* failed write is logged; langid.set runs either way
listener_ctx(op, detail, lang, quotaExceeded) ==
  IF ~IsSome(detail)
  THEN /\ last' = Logged(Step(op, detail, lang, FALSE, FALSE),
                         DispatchCalls(op, ListenerCallsCtx(detail, FALSE)))
       /\ UNCHANGED <<config, subscribers, other, backend, ctx, cookieTasks, message>>
  ELSE /\ storage' = (IF local_storage_set_result_ok(quotaExceeded) THEN detail ELSE storage)
       /\ langid_set(ListenerLangid(Unwrap(detail), Unwrap(initial_langid)))
       /\ last' = Logged(Step(op, detail, lang, FALSE, ~local_storage_set_result_ok(quotaExceeded)),
                         DispatchCalls(op, ListenerCallsCtx(detail, local_storage_set_result_ok(quotaExceeded))))
       /\ UNCHANGED <<config, subscribers, other, cookie, phase, initial_langid, timeoutPending, msg>>

\* window.dispatch_event: runs the registered listeners synchronously
dispatch_event(op, detail, lang, quotaExceeded) ==
  IF ~ListenerRegistered
  THEN /\ last' = Logged(Step(op, detail, lang, FALSE, FALSE), DispatchCalls(op, <<>>))
       /\ UNCHANGED <<config, subscribers, other, backend, ctx, cookieTasks, message>>
  ELSE IF impl = "lib" THEN listener_lib(op, detail, lang, quotaExceeded)
  ELSE listener_ctx(op, detail, lang, quotaExceeded)

\* change_langid(langid): the detail is the language's string form
change_langid(l, quotaExceeded) ==
  /\ phase = "ready"
  /\ dispatch_event("change_langid", Some(to_string(l)), Some(l), quotaExceeded)

\* the same event dispatched by other code of the page, with any detail
\* (None: a detail that is not a string)
ForeignEvent(detail, quotaExceeded) ==
  /\ phase = "ready"
  /\ dispatch_event("event", detail, None, quotaExceeded)

(***************************************************************************)
(* lib.rs, LocalStorage: the polling interval (use_interval_fn, 1000 ms).  *)
(***************************************************************************)
\* mutant: the tick falls back to the initial language as the listener does
PollLangidWithFallback(storage_langid, now) ==
  IF IsSome(storage_langid) /\ Unwrap(storage_langid) # to_string(now)
  THEN Some(UnwrapOr(from_str(Unwrap(storage_langid)), Unwrap(initial_langid)))
  ELSE None

\* mutant: the tick takes a missing item for the initial language
PollLangidAbsentFallsBack(storage_langid, now) ==
  IF ~IsSome(storage_langid) THEN initial_langid
  ELSE IF Unwrap(storage_langid) # to_string(now) /\ IsSome(from_str(Unwrap(storage_langid)))
  THEN from_str(Unwrap(storage_langid))
  ELSE None

\* mutant: the tick reads the storage and never updates the signal
PollLangidReadOnly(storage_langid, now) == None

\* the value the tick hands to langid.set, None when it does not call it
PollLangid(storage_langid, now) ==
  IF IsSome(storage_langid)
     /\ Unwrap(storage_langid) # to_string(now)
     /\ IsSome(from_str(Unwrap(storage_langid)))
  THEN from_str(Unwrap(storage_langid))
  ELSE None

\* mutant: the tick writes the value it has read back to the storage
TickCallsWritingBack(new) ==
  IF IsSome(new) THEN <<"read", "write", "set">> ELSE <<"read", "write">>

\* the calls of a tick: the read, and langid.set for a new language
TickCalls(new) == IF IsSome(new) THEN <<"read", "set">> ELSE <<"read">>

Tick ==
  /\ phase = "ready"
  /\ impl = "lib"
  /\ source = "LocalStorage"
  /\ MicrotasksDone
  /\ IF ~IsSome(local_storage_get)
     THEN /\ last' = Logged(Step("tick", None, None, TRUE, FALSE), <<"read">>)
          /\ UNCHANGED <<config, subscribers, other, backend, ctx, cookieTasks, message>>
     ELSE LET new == PollLangid(Unwrap(local_storage_get), Unwrap(langid)) IN
          /\ last' = Logged(Step("tick", storage, None, FALSE, FALSE), TickCalls(new))
          /\ IF IsSome(new)
             THEN /\ langid_set(Unwrap(new))
                  /\ UNCHANGED <<config, subscribers, other, backend, phase, initial_langid, timeoutPending, msg>>
             ELSE UNCHANGED <<config, subscribers, other, backend, ctx, cookieTasks, message>>

(***************************************************************************)
(* lib.rs, Cookie: the sync Effect and the one-second timeout.             *)
(***************************************************************************)
\* mutant: the Effect writes only over a cookie that exists
CookieEffectWritesOverExisting(cookie_langid, langid_str) ==
  IsSome(cookie_langid) /\ Unwrap(cookie_langid) # langid_str

\* the Effect writes the cookie when it is absent or differs
CookieEffectWrites(cookie_langid, langid_str) ==
  ~IsSome(cookie_langid) \/ Unwrap(cookie_langid) # langid_str

\* the calls of the Effect: the read, and cookie::set when it writes
CookieEffectCalls(writes) == IF writes THEN <<"read", "write">> ELSE <<"read">>

CookieEffect ==
  /\ phase = "ready"
  /\ source = "Cookie"
  /\ effectDirty
  /\ cookie' = (IF CookieEffectWrites(cookie_get, to_string(Unwrap(langid)))
                THEN cookie_set(to_string(Unwrap(langid)))
                ELSE cookie)
  /\ effectDirty' = FALSE
  /\ last' = Logged(Step("effect", None, None, FALSE, FALSE),
                    CookieEffectCalls(CookieEffectWrites(cookie_get, to_string(Unwrap(langid)))))
  /\ UNCHANGED <<config, subscribers, other, storage, ctx, timeoutPending, message>>

\* the value the timeout hands to langid.set, None when it does not call it
TimeoutLangid(item, langid_str) ==
  IF IsSome(item)
     /\ Unwrap(item) # langid_str
     /\ IsSome(from_str(Unwrap(item)))
  THEN from_str(Unwrap(item))
  ELSE None

\* the calls of the timeout: the read, and langid.set for a new language
TimeoutCalls(new) == IF IsSome(new) THEN <<"read", "set">> ELSE <<"read">>

\* set_timeout(.., 1 s): fires once
CookieTimeout ==
  /\ phase = "ready"
  /\ source = "Cookie"
  /\ timeoutPending
  /\ MicrotasksDone
  /\ timeoutPending' = FALSE
  /\ LET new == TimeoutLangid(cookie_get, to_string(Unwrap(langid))) IN
     /\ last' = Logged(Step("timeout", cookie, None, FALSE, FALSE), TimeoutCalls(new))
     /\ IF IsSome(new)
        THEN /\ langid_set(Unwrap(new))
             /\ UNCHANGED <<config, subscribers, other, backend, phase, initial_langid, msg>>
        ELSE UNCHANGED <<config, subscribers, other, backend, ctx, effectDirty, message>>

(***************************************************************************)
(* rtr_impl: the Effect that recomputes the message into its RwSignal.     *)
(***************************************************************************)
MsgEffect ==
  /\ phase = "ready"
  /\ msgDirty
  /\ msg' = RtrMessage(Unwrap(langid), MsgId)
  /\ msgDirty' = FALSE
  /\ last' = Logged(Step("msg_effect", None, None, FALSE, FALSE), <<"query">>)
  /\ UNCHANGED <<config, subscribers, other, backend, ctx, cookieTasks>>

\* rtr (ReactiveMessage::new, Signal::derive): a read runs the closure
DerivedMessage == RtrMessage(Unwrap(langid), MsgId)

(***************************************************************************)
(* Reading a ReactiveMessage.  A view holds the message of an rtr! call    *)
(* site and reads it through the accessors; the call site is either the    *)
(* rtr_impl expansion ("effect": an RwSignal written by the Effect) or the *)
(* rtr expansion ("derive": Signal::derive over the query closure), with   *)
(* or without an on_error argument.                                        *)
(***************************************************************************)
Variants == {"effect", "derive"}
Accessors == {"id", "value", "attr"}
AttrNames == {"title", "missing"}
Observer == "view"

\* the errors the Localizer returns when the query fails
QueryErrors(l, id) ==
  IF IsSome(Query(l, id)) THEN <<>> ELSE <<"missing-locale", "missing-message">>

\* the caller's handler: a message that shows what it was given
ErrText(errs) ==
  CASE errs = <<"missing-locale", "missing-message">> -> "missing-locale,missing-message"
    [] errs = <<"missing-locale">> -> "missing-locale"
    [] OTHER -> "no-error"
OnError(errs) == [id |-> "on_error", value |-> ErrText(errs), attrs |-> EmptyAttrs]

\* the closure that discards the handler (as rtr_impl does)
RtrClosureDroppingHandler(l, id, onError) == RtrMessage(l, id)

\* rtr: the closure handed to ReactiveMessage::new
RtrClosure(l, id, onError) ==
  IF IsSome(Query(l, id)) THEN Unwrap(Query(l, id))
  ELSE IF onError THEN OnError(QueryErrors(l, id))
  ELSE Placeholder(id)

\* the argument the closure hands to the handler (None: not invoked)
RtrHandled(l, id, onError) ==
  IF onError /\ ~IsSome(Query(l, id)) THEN Some(QueryErrors(l, id)) ELSE None

\* the message a read of the call site yields, and what the read invokes:
\* rtr_impl takes on_error for a message argument and never calls it
ReadMessage(variant, onError) ==
  IF variant = "effect" THEN msg
  ELSE RtrClosure(Unwrap(langid), MsgId, onError)
ReadHandled(variant, onError) ==
  IF variant = "effect" THEN None
  ELSE RtrHandled(Unwrap(langid), MsgId, onError)
ReadCalls(variant, onError) ==
  IF variant = "effect" THEN <<>>
  ELSE IF IsSome(ReadHandled(variant, onError)) THEN <<"query", "on_error">>
  ELSE <<"query">>

\* HashMap::get
attrs_get(attrs, n) == IF n \in DOMAIN attrs THEN Some(attrs[n]) ELSE None

id(m) == m.id
id_untracked(m) == m.id
value(m) == m.value
value_untracked(m) == m.value
\* an attr that yields the empty string for a missing attribute
attr_or_empty(m, n) == UnwrapOr(attrs_get(m.attrs, n), "")
attr(m, n) == UnwrapOr(attrs_get(m.attrs, n), n)
attr_untracked(m, n) == UnwrapOr(attrs_get(m.attrs, n), n)

Access(accessor, tracked, m, n) ==
  CASE accessor = "id" -> IF tracked THEN id(m) ELSE id_untracked(m)
    [] accessor = "value" -> IF tracked THEN value(m) ELSE value_untracked(m)
    [] OTHER -> IF tracked THEN attr(m, n) ELSE attr_untracked(m, n)

\* with(..) subscribes whatever it is given
SubscribeAlways(tracked, subs) == subs \cup {Observer}
\* with(..) subscribes the running observer, with_untracked(..) does not
Subscribe(tracked, subs) == IF tracked THEN subs \cup {Observer} ELSE subs

Read(variant, onError, accessor, n, tracked) ==
  /\ phase = "ready"
  /\ subscribers' = Subscribe(tracked, subscribers)
  /\ last' = [Logged(Step("read", None, None, FALSE, FALSE), ReadCalls(variant, onError))
               EXCEPT !.read =
                 [variant |-> variant, onError |-> onError, accessor |-> accessor,
                  name |-> n, tracked |-> tracked,
                  result |-> Access(accessor, tracked, ReadMessage(variant, onError), n),
                  handled |-> ReadHandled(variant, onError),
                  subsBefore |-> subscribers,
                  again |-> /\ last.op = "read"
                            /\ last.read.variant = variant
                            /\ last.read.onError = onError
                            /\ last.read.accessor = accessor
                            /\ last.read.name = n,
                  prevQueries |-> IF last.op = "read" THEN Count(last.log, "query")
                                  ELSE 0]]
  /\ UNCHANGED <<config, other, backend, ctx, cookieTasks, message>>

ReadAccessor ==
  \E variant \in Variants, onError \in BOOLEAN, tracked \in BOOLEAN :
    \/ Read(variant, onError, "id", "", tracked)
    \/ Read(variant, onError, "value", "", tracked)
    \/ \E n \in AttrNames : Read(variant, onError, "attr", n, tracked)

(***************************************************************************)
(* The environment: another tab, the server or the user changes the        *)
(* backend behind the program's back (None: the entry is deleted).         *)
(***************************************************************************)
ExternalStorageWrite(v) ==
  /\ phase = "ready"
  /\ StorageObserved
  /\ storageAvail
  /\ storage' = v
  /\ last' = Step("ext_storage", v, None, FALSE, FALSE)
  /\ UNCHANGED <<config, subscribers, other, cookie, ctx, cookieTasks, message>>

ExternalCookieWrite(v) ==
  /\ phase = "ready"
  /\ CookieObserved
  /\ cookie' = v
  /\ last' = Step("ext_cookie", v, None, FALSE, FALSE)
  /\ UNCHANGED <<config, subscribers, other, storage, ctx, cookieTasks, message>>

(***************************************************************************)
(* A second tab of the same browser running the same lib.rs program with   *)
(* LangIdSource::LocalStorage: it shares the navigator and the storage     *)
(* item, and has its own signal, listener and polling interval.            *)
(***************************************************************************)
OtherProvide ==
  /\ other.phase = "new"
  /\ LET initial == InitialLangidLib(navigator) IN
       /\ other' =
            IF ~IsSome(initial)
            THEN [phase |-> "aborted", langid |-> None, initial_langid |-> None]
            ELSE IF ~IsSome(local_storage_get)
            THEN [phase |-> "aborted", langid |-> initial, initial_langid |-> initial]
            ELSE [phase |-> "ready",
                  langid |-> Some(StartupLangid(Unwrap(local_storage_get), Unwrap(initial))),
                  initial_langid |-> initial]
       /\ last' = Step("other_provide", None, None,
                       ~IsSome(initial) \/ ~IsSome(local_storage_get), FALSE)
  /\ UNCHANGED <<config, subscribers, backend, ctx, cookieTasks, message>>

\* change_langid(l) called in the second tab: its window's listener runs
OtherChangeLangid(l, quotaExceeded) ==
  /\ other.phase = "ready"
  /\ IF ~local_storage_set_ok(quotaExceeded)
     THEN /\ last' = Step("other_change_langid", Some(to_string(l)), Some(l), TRUE, TRUE)
          /\ UNCHANGED <<storage, other>>
     ELSE /\ storage' = Some(to_string(l))
          /\ other' = [other EXCEPT !.langid =
                         Some(ListenerLangid(to_string(l), Unwrap(other.initial_langid)))]
          /\ last' = Step("other_change_langid", Some(to_string(l)), Some(l), FALSE, FALSE)
  /\ UNCHANGED <<config, subscribers, cookie, ctx, cookieTasks, message>>

\* the second tab's polling interval
OtherTick ==
  /\ other.phase = "ready"
  /\ IF ~IsSome(local_storage_get)
     THEN /\ last' = Step("other_tick", None, None, TRUE, FALSE)
          /\ UNCHANGED other
     ELSE LET new == PollLangid(Unwrap(local_storage_get), Unwrap(other.langid)) IN
          /\ last' = Step("other_tick", storage, None, FALSE, FALSE)
          /\ other' = IF IsSome(new) THEN [other EXCEPT !.langid = new] ELSE other
  /\ UNCHANGED <<config, subscribers, backend, ctx, cookieTasks, message>>

OtherChange == \E l \in Langs, q \in BOOLEAN : OtherChangeLangid(l, q)

ChangeLangid == \E l \in Langs, q \in BOOLEAN : change_langid(l, q)
Foreign == \E d \in OptInputs, q \in BOOLEAN : ForeignEvent(d, q)
ExternalStorage == \E v \in OptInputs : ExternalStorageWrite(v)
ExternalCookie == \E v \in OptInputs : ExternalCookieWrite(v)

Next ==
  \/ provide_langid_context
  \/ provide_langid_context_ctx
  \/ ChangeLangid
  \/ Foreign
  \/ Tick
  \/ CookieEffect
  \/ CookieTimeout
  \/ MsgEffect
  \/ ExternalStorage
  \/ ExternalCookie

Spec == Init /\ [][Next]_vars

\* the event loop runs every scheduled effect and every due timer
FairSpec ==
  /\ Spec
  /\ WF_vars(provide_langid_context)
  /\ WF_vars(provide_langid_context_ctx)
  /\ WF_vars(Tick)
  /\ WF_vars(CookieEffect)
  /\ WF_vars(CookieTimeout)
  /\ WF_vars(MsgEffect)

\* the program with a view that reads the messages, started in a browser
\* that reports en-US, with usable and empty backends
ReadInit ==
  /\ Init
  /\ explicit = None
  /\ navigator = Some("en-US")
  /\ storageAvail
  /\ storage = None
  /\ cookie = None
ReadNext == Next \/ ReadAccessor
ReadSpec == ReadInit /\ [][ReadNext]_vars

\* two tabs of one browser on the same local storage item (lib.rs)
TabsInit ==
  /\ impl = "lib"
  /\ source = "LocalStorage"
  /\ explicit = None
  /\ navigator \in Navigators
  /\ storageAvail \in BOOLEAN
  /\ storage \in (IF storageAvail THEN OptInputs ELSE {None})
  /\ cookie = None
  /\ phase = "new"
  /\ langid = None
  /\ initial_langid = None
  /\ effectDirty = FALSE
  /\ timeoutPending = FALSE
  /\ msg = DefaultMessage
  /\ msgDirty = FALSE
  /\ subscribers = {}
  /\ other = [phase |-> "new", langid |-> None, initial_langid |-> None]
  /\ last = [op |-> "none", detail |-> None, lang |-> None, threw |-> FALSE,
             writeFailed |-> FALSE, before |-> None, undisturbed |-> TRUE,
             start |-> [storage |-> storage, cookie |-> cookie],
             log |-> <<>>, read |-> NoRead, settled |-> {}]
TabsNext ==
  \/ provide_langid_context
  \/ ChangeLangid
  \/ Tick
  \/ MsgEffect
  \/ OtherProvide
  \/ OtherChange
  \/ OtherTick
TabsSpec == TabsInit /\ [][TabsNext]_vars

TypeOK ==
  /\ phase \in {"new", "ready", "aborted"}
  /\ langid \in OptLangs
  /\ initial_langid \in OptLangs
  /\ storage \in OptStrings
  /\ cookie \in OptStrings
  /\ subscribers \subseteq {Observer}
  /\ phase = "ready" => IsSome(langid) /\ IsSome(initial_langid)

(***************************************************************************)
(* Properties.                                                             *)
(***************************************************************************)
IsParsable(o) == IsSome(o) /\ IsSome(from_str(Unwrap(o)))
IsGarbage(o) == IsSome(o) /\ ~IsSome(from_str(Unwrap(o)))

\* initialization has completed: provide_langid_context returned and, with
\* the Cookie source, the sync Effect and the one-second timeout have run
InitDone ==
  /\ phase = "ready"
  /\ source = "Cookie" => ~effectDirty /\ ~timeoutPending

\* C1: for every source kind and every language L, right after
\* change_langid(L) returns the context signal holds L.
C1_AfterChangeLangidCurrentIsL ==
  last.op = "change_langid" => langid = last.lang

\* C2: for the durable sources (LocalStorage, Cookie), right after
\* change_langid(L) returns (its write not having failed) the value stored
\* under the key in that backend is L's canonical string form.  For the
\* Cookie source the states in which the sync Effect is still scheduled
\* are not held against the claim.
C2_AfterChangeLangidBackendHoldsL ==
  (last.op = "change_langid" /\ ~last.writeFailed) =>
    /\ source = "LocalStorage" => storage = Some(to_string(Unwrap(last.lang)))
    /\ (source = "Cookie" /\ ~effectDirty) =>
         cookie = Some(to_string(Unwrap(last.lang)))

\* C3: with no explicit language and a parsable string persisted under the
\* key at startup, once initialization has completed (nothing else having
\* happened) the current language is the persisted one and the backend still
\* holds the persisted string.
C3_PersistedValueRestored ==
  (InitDone /\ last.undisturbed /\ explicit = None) =>
    /\ (source = "LocalStorage" /\ IsParsable(last.start.storage)) =>
         /\ langid = from_str(Unwrap(last.start.storage))
         /\ storage = last.start.storage
    /\ (source = "Cookie" /\ IsParsable(last.start.cookie)) =>
         /\ langid = from_str(Unwrap(last.start.cookie))
         /\ cookie = last.start.cookie

\* C4 (as claimed): with an explicit initial language E, the current
\* language after initialization is E, for every source and backend content.
C4_ExplicitUsedVerbatim ==
  (last.op = "provide" /\ ~last.threw /\ IsSome(explicit)) => langid = explicit

\* C4 (amended): with an explicit initial language E, the current language
\* after initialization is E, except that with the LocalStorage source and a
\* parsable string stored under the key it is that stored language.
C4_ExplicitUnlessPersisted ==
  (last.op = "provide" /\ ~last.threw /\ IsSome(explicit)) =>
    langid = (IF source = "LocalStorage" /\ storageAvail /\ IsParsable(last.start.storage)
              THEN from_str(Unwrap(last.start.storage))
              ELSE explicit)

\* C4 witness: initialization with an explicit language and a different
\* parsable language in local storage
C4_Witness ==
  /\ last.op = "provide" /\ ~last.threw
  /\ source = "LocalStorage"
  /\ explicit = Some(EN_US)
  /\ last.start.storage = Some("fr")
  /\ langid = Some(FR)

C6_WriteFailureKeepsUpdate ==
  (last.op = "change_langid" /\ last.writeFailed) =>
    (langid = last.lang /\ ~last.threw)

\* C7: initialization aborts exactly when no explicit language was supplied
\* and the environment's locale string does not parse; an absent or failing
\* persistence backend aborts neither initialization nor a later operation.
C7_OnlyConfigurationErrorAborts ==
  /\ (last.op = "provide" /\ IsSome(navigator)) =>
       (last.threw <=> (explicit = None /\ ~IsParsable(navigator)))
  /\ last.writeFailed => ~last.threw
  /\ last.op = "tick" => ~last.threw

\* C8: once the language has changed and the recomputation scheduled by the
\* change has run, the message held by the ReactiveMessage (read tracked or
\* untracked, for id, value and attributes) is the Localizer's result for
\* the current language, never one computed for an earlier language.
C8_MessageFreshAfterRecomputation ==
  (phase = "ready" /\ ~msgDirty) => msg = RtrMessage(Unwrap(langid), MsgId)

\* C8 witness: the message was computed for en-US, the cookie timeout then
\* changed the language to fr, and the message has been recomputed for fr
C8_Witness ==
  /\ source = "Cookie"
  /\ initial_langid = Some(EN_US)
  /\ langid = Some(FR)
  /\ last.op = "msg_effect"
  /\ msg.value = "Bonjour"

\* C9: with the Cookie source, every external write of a parsable language
\* string to the cookie, made after initialization has completed, is
\* eventually followed by the current language being that value.
C9_CookieExternalWriteEventuallySeen ==
  \A s \in {i \in Inputs : IsParsable(Some(i))} :
    (InitDone /\ source = "Cookie" /\ last.op = "ext_cookie" /\ last.detail = Some(s))
      ~> (langid = from_str(s))

\* C10: with the LocalStorage source, every external write of a parsable
\* language string to the key is eventually followed by the current
\* language being that value, unless the key is written again first (by
\* the environment, or by the listener handling a later event, whether or
\* not its write goes through).
C10_StorageExternalWriteEventuallySeen ==
  \A s \in {i \in Inputs : IsParsable(Some(i))} :
    (phase = "ready" /\ source = "LocalStorage" /\ last.op = "ext_storage"
       /\ last.detail = Some(s))
      ~> \/ langid = from_str(s)
         \/ storage # Some(s)
         \/ (last.op \in {"change_langid", "event"} /\ IsSome(last.detail))

\* the last step reconciled the string last.detail: the listener handled
\* it, or a polling path read it
Reconciling ==
  \/ last.op \in {"change_langid", "event"} /\ ListenerRegistered
  \/ last.op \in {"tick", "timeout"}
\* ... and that string names the language that was already current
AlreadyCurrent ==
  /\ IsSome(last.detail)
  /\ IsSome(last.before)
  /\ from_str(Unwrap(last.detail)) = last.before
\* the events dispatched by the reconciliation itself (change_langid's own
\* dispatch is the call's, not the reconciliation's)
ReconcileDispatches ==
  Count(last.log, "dispatch") - (IF last.op = "change_langid" THEN 1 ELSE 0)

C13_NoFeedbackLoop ==
  /\ last.op # "change_langid" => ~Has(last.log, "dispatch")
  /\ last.op = "change_langid" =>
       /\ Count(last.log, "dispatch") = 1
       /\ Count(last.log, "listener") = (IF ListenerRegistered THEN 1 ELSE 0)

\* C13 witness: a change_langid call that changed the language through the
\* listener
C13_Witness ==
  /\ last.op = "change_langid" /\ ListenerRegistered
  /\ Count(last.log, "listener") = 1
  /\ langid = last.lang
  /\ last.before # last.lang

(***************************************************************************)
(* Properties of the messages and their accessors (ReadSpec).              *)
(***************************************************************************)
\* the Localizer has no message for the current language
QueryFails == phase = "ready" /\ ~IsSome(Query(Unwrap(langid), MsgId))
\* the last step read the call site (variant, onError)
ReadOf(variant, onError) ==
  /\ last.op = "read"
  /\ last.read.variant = variant
  /\ last.read.onError = onError

\* C14: when the query fails and no error handler was supplied, the message
\* has id and value equal to the requested identifier and no attributes:
\* for the recomputed RwSignal of rtr_impl and for what a read of the
\* derived signal of rtr yields (an attribute read, finding no attribute,
\* yields the attribute name)
C14_FailedQueryYieldsPlaceholder ==
  /\ (QueryFails /\ ~msgDirty) =>
       /\ msg.id = MsgId
       /\ msg.value = MsgId
       /\ DOMAIN msg.attrs = {}
  /\ (QueryFails /\ ReadOf("derive", FALSE)) =>
       last.read.result = (IF last.read.accessor = "attr" THEN last.read.name ELSE MsgId)
C14_Witness ==
  /\ QueryFails
  /\ ~msgDirty
  /\ msg.value = MsgId
  /\ ReadOf("derive", FALSE)
  /\ last.read.accessor = "value"
  /\ last.read.result = MsgId

\* C15: when the caller supplied on_error and the query fails, the handler
\* is invoked with the full error list and the message read is exactly the
\* handler's result; when the query succeeds the handler is not invoked
\* (the RwSignal of rtr_impl is looked at once its Effect has recomputed it)
C15_HandlerResultExposed ==
  (last.op = "read" /\ last.read.onError
     /\ (last.read.variant = "effect" => ~msgDirty)) =>
    IF QueryFails
    THEN /\ Has(last.log, "on_error")
         /\ last.read.handled = Some(QueryErrors(Unwrap(langid), MsgId))
         /\ last.read.result =
              Access(last.read.accessor, last.read.tracked,
                     OnError(QueryErrors(Unwrap(langid), MsgId)), last.read.name)
    ELSE /\ ~Has(last.log, "on_error")
         /\ last.read.handled = None

\* C16: attr(n) and attr_untracked(n) return the mapped value when the
\* message read has the attribute n, and the string n itself when it has
\* not; they always return
C16_AbsentAttrYieldsName ==
  (last.op = "read" /\ last.read.accessor = "attr") =>
    LET m == ReadMessage(last.read.variant, last.read.onError) IN
      last.read.result =
        (IF last.read.name \in DOMAIN m.attrs THEN m.attrs[last.read.name]
         ELSE last.read.name)
C16_Witness ==
  /\ last.op = "read"
  /\ last.read.accessor = "attr"
  /\ last.read.tracked
  /\ last.read.name = "missing"
  /\ DOMAIN ReadMessage(last.read.variant, last.read.onError).attrs = {"title"}
  /\ last.read.result = "missing"

\* C17: reading the same attribute twice in a row, with no language change
\* in between, invokes the Localizer at most once in total
C17_RepeatedReadQueriesOnce ==
  (last.op = "read" /\ last.read.accessor = "attr" /\ last.read.again) =>
    last.read.prevQueries + Count(last.log, "query") <= 1

\* C18: in every state the tracked and the untracked accessor of a pair
\* return the same result; a tracked read subscribes the observer, an
\* untracked read leaves the subscribers as they were
C18_TrackedAndUntrackedAgree ==
  /\ phase = "ready" =>
       \A v \in Variants, e \in BOOLEAN, a \in Accessors, n \in AttrNames :
         Access(a, TRUE, ReadMessage(v, e), n) = Access(a, FALSE, ReadMessage(v, e), n)
  /\ last.op = "read" =>
       IF last.read.tracked
       THEN subscribers = last.read.subsBefore \cup {Observer}
       ELSE subscribers = last.read.subsBefore
C18_Witness ==
  /\ last.op = "read"
  /\ last.read.tracked
  /\ last.read.subsBefore = {}
  /\ subscribers = {Observer}
  /\ last.read.result = "Bonjour"

\* the last step polled the backend and found no value under the key
PolledAbsent ==
  /\ last.op \in {"tick", "timeout"}
  /\ ~last.threw
  /\ last.detail = None

\* C19: when the key has been deleted, the next reconciliation sets the
\* current language to the fallback (initial) language
C19_DeletedKeyFallsBack == PolledAbsent => langid = initial_langid

\* C19 (amended): when the key has been deleted, the reconciliation that
\* finds it missing (the polling tick, the cookie timeout) leaves the
\* current language as it was
C19_DeletedKeyKeepsLanguage == PolledAbsent => langid = last.before

\* C19 witness: a tick found the key deleted while the current language,
\* restored from the storage at startup, differed from the fallback
C19_Witness ==
  /\ PolledAbsent
  /\ last.op = "tick"
  /\ ~last.undisturbed
  /\ last.before # initial_langid
  /\ langid = last.before

\* C20: establishing the initial language writes nothing to the backend:
\* until the first change_langid call or external change, the storage item
\* and the cookie under the key are what they were at the start
C20_StartupNeverWrites ==
  last.undisturbed =>
    /\ storage = last.start.storage
    /\ cookie = last.start.cookie

\* Cookie source: nothing is scheduled and the cookie names the current
\* language
CookieQuiet ==
  /\ source = "Cookie"
  /\ phase = "ready"
  /\ ~effectDirty
  /\ ~timeoutPending
  /\ cookie = Some(to_string(Unwrap(langid)))

\* C21: with the Cookie source, from whatever cookie the program starts
\* with, and as long as no change_langid call, event or external write
\* intervenes, the sync Effect and the timeout come to rest with the cookie
\* equal to the current language's string; the Effect issues a write only
\* over a cookie that is absent or differs, and once at rest the program
\* stays at rest
C21_CookieSyncQuiesces ==
  /\ (source = "Cookie" /\ phase = "ready") ~> (~last.undisturbed \/ CookieQuiet)
  /\ [][(last'.op = "effect" /\ Has(last'.log, "write")) =>
           cookie # Some(to_string(Unwrap(langid)))]_vars
  /\ [][(CookieQuiet /\ last'.undisturbed) => CookieQuiet']_vars
C21_Witness ==
  /\ CookieQuiet
  /\ last.undisturbed
  /\ last.start.cookie = Some("fr")
  /\ last.op = "timeout"

(***************************************************************************)
(* Properties of two tabs (TabsSpec).                                      *)
(***************************************************************************)
\* both tabs run, and each has taken a polling tick since the last call
TabsSettled ==
  /\ phase = "ready"
  /\ other.phase = "ready"
  /\ last.settled = {"this", "other"}

\* C22: once the calls have stopped and every tab has taken a polling
\* tick, both tabs' current languages equal each other and equal the
\* language stored under the key
C22_TabsAgreeWithStorage ==
  TabsSettled =>
    /\ langid = other.langid
    /\ IsParsable(storage)
    /\ langid = from_str(Unwrap(storage))

\* C22 (amended): once the calls have stopped and every tab has taken a
\* polling tick, both tabs' current languages equal each other; they equal
\* the language stored under the key when the key holds a language
\* identifier, and the initial language when it holds none (nothing, or a
\* string that is no identifier, was there from the start and no call's
\* write succeeded)
C22_TabsAgree ==
  TabsSettled =>
    /\ langid = other.langid
    /\ IF IsParsable(storage) THEN langid = from_str(Unwrap(storage))
       ELSE langid = initial_langid

\* C22 witness: the second tab changed the language to fr, both tabs have
\* ticked since, and this tab has followed
C22_Witness ==
  /\ TabsSettled
  /\ initial_langid = Some(EN_US)
  /\ storage = Some("fr")
  /\ ~last.undisturbed
  /\ last.start.storage = None
  /\ langid = Some(FR)
  /\ other.langid = Some(FR)

\* the initial language the configuration yields (None: establishing it
\* throws)
ConfiguredInitial ==
  IF impl = "lib" THEN InitialLangidLib(navigator)
  ELSE InitialLangidCtx(explicit, navigator)

\* C23: with the LocalStorage source, when the key holds at startup a
\* string that is no language identifier (and the configuration yields an
\* initial language), initialization completes, the current language is
\* the initial language (the explicit value, else the environment locale)
\* and the string is still stored
C23_GarbageAtStartupFallsBack ==
  (last.op = "provide" /\ source = "LocalStorage"
     /\ IsGarbage(last.start.storage) /\ IsSome(ConfiguredInitial)) =>
    /\ phase = "ready"
    /\ ~last.threw
    /\ langid = ConfiguredInitial
    /\ initial_langid = ConfiguredInitial
    /\ storage = last.start.storage
C23_Witness ==
  /\ last.op = "provide"
  /\ source = "LocalStorage"
  /\ explicit = Some(FR)
  /\ last.start.storage = Some("zz!")
  /\ storage = Some("zz!")
  /\ phase = "ready"
  /\ langid = Some(FR)

\* C24: with the LocalStorage source, after every change event the
\* listener has handled (it wrote the storage and updated the signal),
\* whatever string its detail carries, the string stored under the key is
\* the canonical string of the current language
C24_StoredIsCanonicalCurrent ==
  (last.op \in {"change_langid", "event"} /\ ListenerRegistered
     /\ IsSome(last.detail) /\ ~last.threw /\ ~last.writeFailed) =>
    storage = Some(to_string(Unwrap(langid)))

Localized == {RtrMessage(l, MsgId) : l \in Langs}

\* C26: every read of the ReactiveMessage of rtr_impl, from its
\* construction on, returns what the accessor yields on a message the
\* Localizer produced for the id or on the placeholder, never on another
\* message such as the empty default one
C26_ReadNeverYieldsDefault ==
  (last.op = "read" /\ last.read.variant = "effect") =>
    \E m \in Localized :
      last.read.result = Access(last.read.accessor, last.read.tracked, m, last.read.name)

\* C27: a change event whose detail is no string leaves the current
\* language and the stored value as they were (the listener neither writes
\* nor sets), and the listener returns without throwing
C27_NonStringDetailIgnored ==
  (last.op = "event" /\ ListenerRegistered /\ last.detail = None) =>
    /\ langid = last.before
    /\ ~Has(last.log, "write")
    /\ ~Has(last.log, "set")
    /\ ~last.threw
====
